---- MODULE Spec2Model ----
(***************************************************************************)
(* Exam flow of spi_exam_flask_app: the question-set store of              *)
(* data_loader.py (index, mtime cache, validation) and the session state   *)
(* machine of app.py (exam_start, exam_question, exam_answer,              *)
(* exam_result).  Python dicts are functions whose DOMAIN is the set of    *)
(* keys present; Python None in a list slot is the empty tuple and a       *)
(* present integer v is <<v>>; strings that the code inspects character by *)
(* character (slugs, submitted options) are tuples of one-character        *)
(* strings.                                                                *)
(***************************************************************************)
EXTENDS Integers, Sequences, FiniteSets, TLC

VARIABLES root_exists, files, debug, INDEX, EXAM_INDEX, CACHE, session,
          request, response, fsWrites, scan, pending

vars == <<root_exists, files, debug, INDEX, EXAM_INDEX, CACHE, session,
          request, response, fsWrites, scan, pending>>

(***************************************************************************)
(* Bounds of the model.                                                    *)
(***************************************************************************)
MaxIndex == 2        \* current_index is explored up to this value
MaxFsWrites == 1     \* number of changes made to the data directory
MaxExamIndex == 5    \* current_index bound of the five-question scenario

(***************************************************************************)
(* Python dict and Optional helpers.                                       *)
(***************************************************************************)
EmptyDict == [k \in {} |-> TRUE]
Get(d, k, default) == IF k \in DOMAIN d THEN d[k] ELSE default
Put(d, k, v) == [x \in (DOMAIN d) \cup {k} |-> IF x = k THEN v ELSE d[x]]
Pop(d, k) == [x \in (DOMAIN d) \ {k} |-> d[x]]

None == <<>>
Some(v) == <<v>>

(***************************************************************************)
(* data_loader.py                                                          *)
(***************************************************************************)
LowerChars == {"a", "b", "c", "d", "e", "f", "g", "h", "i", "j", "k", "l", "m",
               "n", "o", "p", "q", "r", "s", "t", "u", "v", "w", "x", "y", "z"}
DigitChars == {"0", "1", "2", "3", "4", "5", "6", "7", "8", "9"}

\* _SLUG_RE = ^[a-z0-9_\-]+$ used with match(): one or more characters of the
\* class, then the end of the string or a single final newline.
SlugClass == LowerChars \cup DigitChars \cup {"_", "-"}

SLUG_RE_match(slug) ==
    LET n == Len(slug)
        body == IF n > 0 /\ slug[n] = "\n" THEN n - 1 ELSE n
    IN  /\ body >= 1
        /\ \A i \in 1..body : slug[i] \in SlugClass

\* _validate_question: a question is a record [is_dict, has_prompt_html,
\* options (the number of options, None when the key is missing or not a
\* list), answer_index (None when missing or not an int)].
validate_question(question) ==
    IF ~question.is_dict THEN FALSE
    ELSE IF question.options = None \/ question.answer_index = None
            \/ ~question.has_prompt_html THEN FALSE
    ELSE IF question.options[1] < 2 THEN FALSE
    ELSE IF ~(0 <= question.answer_index[1]
              /\ question.answer_index[1] < question.options[1]) THEN FALSE
    ELSE TRUE

\* _validate_exam: data is the parsed JSON document.
validate_exam(data, mode, category, slug) ==
    IF ~data.is_dict THEN FALSE
    ELSE IF data.version # 1 THEN FALSE
    ELSE IF data.mode # mode \/ data.category # category \/ data.slug # slug
         THEN FALSE
    ELSE IF data.title = "" THEN FALSE
    ELSE IF ~data.has_description THEN FALSE
    ELSE IF ~(1 <= data.time_per_question_sec
              /\ data.time_per_question_sec <= 600) THEN FALSE
    ELSE IF Len(data.questions) = 0 THEN FALSE
    ELSE \A i \in 1..Len(data.questions) : validate_question(data.questions[i])

\* A file of the data directory: [mtime, parses, data]; json.load raises when
\* parses is FALSE.
ExamMeta(path, data) ==
    [mode |-> path.mode, category |-> path.category, slug |-> path.stem,
     path |-> path, title |-> data.title,
     num_questions |-> Len(data.questions),
     time_per_question_sec |-> data.time_per_question_sec]

\* An index scan that takes every file that parses.
Indexable_parsed(fs) == {p \in DOMAIN fs : fs[p].parses}

\* The files build_index accepts.
Indexable(fs) ==
    {p \in DOMAIN fs :
        /\ fs[p].parses
        /\ validate_exam(fs[p].data, p.mode, p.category, p.stem)}

\* build_index: an absent root gives the empty index.  Otherwise every
\* indexed slug maps to the ExamMeta of one accepted file of that stem.  With
\* several accepted files of one stem the last one that iterdir() yields
\* wins, and iterdir() promises no order, so the result is any of them: the
\* set of indexes build_index can return.
build_index(root, fs) ==
    LET ok == Indexable(fs)
        slugs == {p.stem : p \in ok}
    IN  IF ~root THEN {EmptyDict}
        ELSE {index \in [slugs -> {ExamMeta(p, fs[p].data) : p \in ok}] :
                \A s \in slugs : index[s].slug = s}

\* load_set: the outcome is [raised, data, cache, opened]; raised is "" when
\* the call returns data, and names the exception otherwise; opened tells
\* whether the call opened the file (path.open, line 145).
Raised(exc, cache, opened) ==
    [raised |-> exc, data |-> None, cache |-> cache, opened |-> opened]

\* A cache test that never looks at the file's modification time.
cache_hit_forever(cache, slug, mtime) == slug \in DOMAIN cache

\* A cache test that wants the cached copy to be newer than the file.
cache_hit_strict(cache, slug, mtime) ==
    slug \in DOMAIN cache /\ cache[slug].mtime > mtime

\* A cache test that wants the recorded modification time to be the file's.
cache_hit_same(cache, slug, mtime) ==
    slug \in DOMAIN cache /\ cache[slug].mtime = mtime

\* cached and cached[0] >= mtime (lines 142-143).
cache_hit(cache, slug, mtime) ==
    slug \in DOMAIN cache /\ cache[slug].mtime >= mtime

\* A load_set that stores what it parsed before it validates it.
load_set_caches_first(slug, index, cache, fs) ==
    IF ~SLUG_RE_match(slug)
    THEN Raised("ValueError: invalid slug", cache, FALSE)
    ELSE IF slug \notin DOMAIN index THEN Raised("KeyError", cache, FALSE)
    ELSE LET meta == index[slug]
             path == meta.path
         IN  IF path \notin DOMAIN fs
             THEN Raised("FileNotFoundError", cache, FALSE)
             ELSE LET mtime == fs[path].mtime
                      stored == Put(cache, slug,
                                    [mtime |-> mtime, data |-> fs[path].data])
                  IN  IF cache_hit(cache, slug, mtime)
                      THEN [raised |-> "", data |-> Some(cache[slug].data),
                            cache |-> cache, opened |-> FALSE]
                      ELSE IF ~fs[path].parses
                           THEN Raised("JSONDecodeError", cache, TRUE)
                      ELSE IF ~validate_exam(fs[path].data, meta.mode,
                                             meta.category, meta.slug)
                           THEN Raised("ValueError: invalid exam data", stored,
                                       TRUE)
                      ELSE [raised |-> "", data |-> Some(fs[path].data),
                            cache |-> stored, opened |-> TRUE]

load_set(slug, index, cache, fs) ==
    IF ~SLUG_RE_match(slug)
    THEN Raised("ValueError: invalid slug", cache, FALSE)
    ELSE IF slug \notin DOMAIN index THEN Raised("KeyError", cache, FALSE)
    ELSE LET meta == index[slug]
             path == meta.path
         IN  IF path \notin DOMAIN fs
             THEN Raised("FileNotFoundError", cache, FALSE)
             ELSE LET mtime == fs[path].mtime
                  IN  IF cache_hit(cache, slug, mtime)
                      THEN [raised |-> "", data |-> Some(cache[slug].data),
                            cache |-> cache, opened |-> FALSE]
                      ELSE IF ~fs[path].parses
                           THEN Raised("JSONDecodeError", cache, TRUE)
                      ELSE IF ~validate_exam(fs[path].data, meta.mode,
                                             meta.category, meta.slug)
                           THEN Raised("ValueError: invalid exam data", cache,
                                       TRUE)
                      ELSE [raised |-> "", data |-> Some(fs[path].data),
                            cache |-> Put(cache, slug,
                                          [mtime |-> mtime,
                                           data |-> fs[path].data]),
                            opened |-> TRUE]

(***************************************************************************)
(* app.py                                                                  *)
(***************************************************************************)
SessionFields == {"question_set_id", "current_index", "answers",
                  "time_per_question_sec"}

\* bool(value) of an Optional[str] read with dict.get(key).
Falsy(d, k) == k \notin DOMAIN d \/ d[k] = <<>>

Redirect(endpoint, message) ==
    [kind |-> "redirect", endpoint |-> endpoint, flash |-> message]
Render(template, context) ==
    [kind |-> "render", template |-> template, context |-> context]
Json(payload) == [kind |-> "json", payload |-> payload]

NoRequest == [handler |-> "", form |-> EmptyDict]
NoResponse == [kind |-> ""]

\* refresh_index (before_request): in debug mode every request first
\* rebuilds the index and stores it in app.config["EXAM_INDEX"];
\* build_index itself assigns _INDEX, unless it returned early because the
\* root is absent.
Refreshed == IF debug THEN build_index(root_exists, files) ELSE {INDEX}

refresh_index(index) ==
    /\ INDEX' = (IF debug /\ root_exists THEN index ELSE INDEX)
    /\ EXAM_INDEX' = (IF debug THEN index ELSE EXAM_INDEX)

\* int(selected): optional surrounding whitespace, an optional sign, then
\* decimal digits that single underscores may separate; anything else
\* raises ValueError, here None.
Whitespace == {" ", "\t", "\n", "\r"}

RECURSIVE lstrip(_)
lstrip(s) == IF s # <<>> /\ Head(s) \in Whitespace THEN lstrip(Tail(s)) ELSE s

RECURSIVE rstrip(_)
rstrip(s) ==
    IF s # <<>> /\ s[Len(s)] \in Whitespace
    THEN rstrip(SubSeq(s, 1, Len(s) - 1)) ELSE s

DigitValue(c) ==
    CASE c = "0" -> 0 [] c = "1" -> 1 [] c = "2" -> 2 [] c = "3" -> 3
      [] c = "4" -> 4 [] c = "5" -> 5 [] c = "6" -> 6 [] c = "7" -> 7
      [] c = "8" -> 8 [] c = "9" -> 9

WellFormedDigits(s) ==
    /\ s # <<>>
    /\ \A i \in 1..Len(s) : s[i] \in DigitChars \cup {"_"}
    /\ s[1] # "_" /\ s[Len(s)] # "_"
    /\ \A i \in 1..(Len(s) - 1) : ~(s[i] = "_" /\ s[i + 1] = "_")

RECURSIVE DigitsValue(_, _)
DigitsValue(s, acc) ==
    IF s = <<>> THEN acc
    ELSE IF Head(s) = "_" THEN DigitsValue(Tail(s), acc)
    ELSE DigitsValue(Tail(s), 10 * acc + DigitValue(Head(s)))

int(selected) ==
    LET s == rstrip(lstrip(selected))
        signed == s # <<>> /\ Head(s) \in {"+", "-"}
        digits == IF signed THEN Tail(s) ELSE s
    IN  IF ~WellFormedDigits(digits) THEN None
        ELSE IF signed /\ Head(s) = "-" THEN Some(0 - DigitsValue(digits, 0))
        ELSE Some(DigitsValue(digits, 0))

\* Scoring that forgets the comparison with answer_index and counts every
\* answered question.
RECURSIVE ScoreFromAnswered(_, _, _)
ScoreFromAnswered(idx, questions, answers) ==
    IF idx >= Len(questions) THEN 0
    ELSE (IF idx < Len(answers) /\ answers[idx + 1] # None THEN 1 ELSE 0)
            + ScoreFromAnswered(idx + 1, questions, answers)

\* The scoring loop of exam_result: idx is the 0-based enumerate() index.
RECURSIVE ScoreFrom(_, _, _)
ScoreFrom(idx, questions, answers) ==
    IF idx >= Len(questions) THEN 0
    ELSE (IF /\ idx < Len(answers)
             /\ answers[idx + 1] # None
             /\ answers[idx + 1] = Some(questions[idx + 1].answer_index[1])
          THEN 1 ELSE 0) + ScoreFrom(idx + 1, questions, answers)

\* A start that leaves current_index as a previous attempt left it.
StartSessionKeepsIndex(s, slug, data) ==
    Put(Put(Put(Put(Put(s, "_permanent", TRUE),
        "question_set_id", slug),
        "current_index", Get(s, "current_index", 0)),
        "answers", <<>>),
        "time_per_question_sec", data.time_per_question_sec)

\* The session writes that end exam_start (session.permanent = True is
\* stored by Flask under the key _permanent).
StartSession(s, slug, data) ==
    Put(Put(Put(Put(Put(s, "_permanent", TRUE),
        "question_set_id", slug),
        "current_index", 0),
        "answers", <<>>),
        "time_per_question_sec", data.time_per_question_sec)

\* A start that stores the slug before it knows that the set loads.
exam_start_session_early(s, slug, loaded) ==
    IF loaded.raised # "" THEN Put(s, "question_set_id", slug)
    ELSE StartSession(s, slug, loaded.data[1])

\* The session after exam_start has called load_set: untouched when
\* load_set raised, the session writes otherwise.
exam_start_session(s, slug, loaded) ==
    IF loaded.raised # "" THEN s
    ELSE StartSession(s, slug, loaded.data[1])

\* A question page that ends the exam one question early.
exam_question_response_early(s, loaded) ==
    LET idx == Get(s, "current_index", 0)
        data == loaded.data[1]
    IN  IF loaded.raised # "" THEN Redirect("select_mode", "load failed")
        ELSE IF idx + 1 >= Len(data.questions)
        THEN Redirect("exam_result", "")
        ELSE Render("exam.html",
                [question |-> data.questions[idx + 1],
                 index |-> idx,
                 total |-> Len(data.questions),
                 time_limit |-> Get(s, "time_per_question_sec",
                                    data.time_per_question_sec),
                 subject_title |-> data.title])

\* A question page that shows the time limit of the set as loaded now.
exam_question_response_fresh(s, loaded) ==
    LET idx == Get(s, "current_index", 0)
        data == loaded.data[1]
    IN  IF loaded.raised # "" THEN Redirect("select_mode", "load failed")
        ELSE IF idx >= Len(data.questions) THEN Redirect("exam_result", "")
        ELSE Render("exam.html",
                [question |-> data.questions[idx + 1],
                 index |-> idx,
                 total |-> Len(data.questions),
                 time_limit |-> data.time_per_question_sec,
                 subject_title |-> data.title])

\* A question page that sends a visitor whose set does not load on to the
\* result page.
exam_question_response_to_result(s, loaded) ==
    LET idx == Get(s, "current_index", 0)
        data == loaded.data[1]
    IN  IF loaded.raised # "" THEN Redirect("exam_result", "")
        ELSE IF idx >= Len(data.questions) THEN Redirect("exam_result", "")
        ELSE Render("exam.html",
                [question |-> data.questions[idx + 1],
                 index |-> idx,
                 total |-> Len(data.questions),
                 time_limit |-> Get(s, "time_per_question_sec",
                                    data.time_per_question_sec),
                 subject_title |-> data.title])

\* What exam_question returns once the session names a question set.
exam_question_response(s, loaded) ==
    LET idx == Get(s, "current_index", 0)
        data == loaded.data[1]
    IN  IF loaded.raised # "" THEN Redirect("select_mode", "load failed")
        ELSE IF idx >= Len(data.questions) THEN Redirect("exam_result", "")
        ELSE Render("exam.html",
                [question |-> data.questions[idx + 1],
                 index |-> idx,
                 total |-> Len(data.questions),
                 time_limit |-> Get(s, "time_per_question_sec",
                                    data.time_per_question_sec),
                 subject_title |-> data.title])

\* A list update that gives an unanswered question no slot.
StoreAnswer_drops_absent(answers, index, selected_index) ==
    IF selected_index = None THEN answers
    ELSE IF Len(answers) <= index THEN Append(answers, selected_index)
    ELSE [answers EXCEPT ![index + 1] = selected_index]

\* The list update of exam_answer.
StoreAnswer(answers, index, selected_index) ==
    IF Len(answers) <= index THEN Append(answers, selected_index)
    ELSE [answers EXCEPT ![index + 1] = selected_index]

\* A conversion that drops negative numbers as if they were no answer.
selected_index_nonnegative(form) ==
    LET v == IF "option" \in DOMAIN form THEN int(form.option) ELSE None
    IN  IF v # None /\ v[1] < 0 THEN None ELSE v

\* The conversion of the submitted option in exam_answer.
selected_index(form) ==
    IF "option" \in DOMAIN form THEN int(form.option) ELSE None

\* An answer that advances only when an option was selected.
exam_answer_session_skip(s, loaded, selected) ==
    LET idx == Get(s, "current_index", 0)
        answers == Get(s, "answers", <<>>)
    IN  IF loaded.raised # "" THEN s
        ELSE Put(Put(s, "answers", StoreAnswer(answers, idx, selected)),
                 "current_index", IF selected = None THEN idx ELSE idx + 1)

\* An answer that is dropped once current_index has reached the number of
\* questions.
exam_answer_session_clamped(s, loaded, selected) ==
    LET idx == Get(s, "current_index", 0)
        answers == Get(s, "answers", <<>>)
    IN  IF loaded.raised # "" THEN s
        ELSE IF idx >= Len(loaded.data[1].questions) THEN s
        ELSE Put(Put(s, "answers", StoreAnswer(answers, idx, selected)),
                 "current_index", idx + 1)

\* An answer that stores the value and leaves current_index alone, so that
\* the next submission overwrites the slot.
exam_answer_session_stay(s, loaded, selected) ==
    LET idx == Get(s, "current_index", 0)
        answers == Get(s, "answers", <<>>)
    IN  IF loaded.raised # "" THEN s
        ELSE Put(s, "answers", StoreAnswer(answers, idx, selected))

\* The session after exam_answer has called load_set.
exam_answer_session(s, loaded, selected) ==
    LET idx == Get(s, "current_index", 0)
        answers == Get(s, "answers", <<>>)
    IN  IF loaded.raised # "" THEN s
        ELSE Put(Put(s, "answers", StoreAnswer(answers, idx, selected)),
                 "current_index", idx + 1)

\* A result that leaves question_set_id in the session.
exam_result_session_keeps_slug(s, loaded) ==
    IF loaded.raised # "" THEN s
    ELSE Pop(Pop(Pop(s, "current_index"), "answers"), "time_per_question_sec")

\* A result that clears the session before it knows that the set loads.
exam_result_session_always(s, loaded) ==
    Pop(Pop(Pop(Pop(s, "question_set_id"), "current_index"), "answers"),
        "time_per_question_sec")

\* A result that forgets to remove the time limit.
exam_result_session_keeps_time(s, loaded) ==
    IF loaded.raised # "" THEN s
    ELSE Pop(Pop(Pop(s, "question_set_id"), "current_index"), "answers")

\* The session after exam_result has called load_set: the four
\* session.pop calls when it returned.
exam_result_session(s, loaded) ==
    IF loaded.raised # "" THEN s
    ELSE Pop(Pop(Pop(Pop(s, "question_set_id"), "current_index"), "answers"),
             "time_per_question_sec")

\* GET /exam/pre-exam/<slug>
pre_exam(slug) ==
    \E index \in Refreshed :
        /\ refresh_index(index)
        /\ request' = [handler |-> "pre_exam", form |-> [slug |-> slug]]
        /\ IF slug \notin DOMAIN EXAM_INDEX'
           THEN /\ response' = Redirect("select_mode", "set does not exist")
                /\ CACHE' = CACHE
           ELSE LET meta == EXAM_INDEX'[slug]
                    loaded == load_set(slug, INDEX', CACHE, files)
                IN  /\ CACHE' = loaded.cache
                    /\ response' =
                         IF loaded.raised # ""
                         THEN Redirect("select_mode", "load failed")
                         ELSE Render("pre_exam.html",
                                [title |-> loaded.data[1].title,
                                 mode |-> meta.mode,
                                 category |-> meta.category,
                                 question_set_id |-> meta.slug,
                                 num_questions |-> meta.num_questions,
                                 time_limit_minutes |->
                                    (meta.time_per_question_sec
                                       * meta.num_questions) \div 60])
        /\ UNCHANGED <<pending, root_exists, scan, files, debug, session,
                       fsWrites>>

\* POST /exam/start
exam_start(form) ==
    \E index \in Refreshed :
        /\ refresh_index(index)
        /\ request' = [handler |-> "exam_start", form |-> form]
        /\ IF Falsy(form, "question_set_id")
              \/ form.question_set_id \notin DOMAIN EXAM_INDEX'
           THEN /\ response' = Redirect("select_mode", "invalid question set")
                /\ UNCHANGED <<CACHE, session>>
           ELSE LET slug == form.question_set_id
                    loaded == load_set(slug, INDEX', CACHE, files)
                IN  /\ CACHE' = loaded.cache
                    /\ session' = exam_start_session(session, slug, loaded)
                    /\ response' =
                         IF loaded.raised # ""
                         THEN Redirect("select_mode", "load failed")
                         ELSE Redirect("exam_question", "")
        /\ UNCHANGED <<pending, root_exists, scan, files, debug, fsWrites>>

\* GET /exam/question
exam_question ==
    \E index \in Refreshed :
        /\ refresh_index(index)
        /\ request' = [handler |-> "exam_question", form |-> EmptyDict]
        /\ IF Falsy(session, "question_set_id")
           THEN /\ response' = Redirect("select_mode", "exam not started")
                /\ CACHE' = CACHE
           ELSE LET slug == session.question_set_id
                    loaded == load_set(slug, INDEX', CACHE, files)
                IN  /\ CACHE' = loaded.cache
                    /\ response' = exam_question_response(session, loaded)
        /\ UNCHANGED <<pending, root_exists, scan, files, debug, session,
                       fsWrites>>

\* POST /exam/answer
exam_answer(form) ==
    \E index \in Refreshed :
        /\ refresh_index(index)
        /\ request' = [handler |-> "exam_answer", form |-> form]
        /\ IF Falsy(session, "question_set_id")
           THEN /\ response' = Redirect("select_mode", "session invalid")
                /\ UNCHANGED <<CACHE, session>>
           ELSE LET slug == session.question_set_id
                    loaded == load_set(slug, INDEX', CACHE, files)
                IN  /\ CACHE' = loaded.cache
                    /\ session' = exam_answer_session(session, loaded,
                                                      selected_index(form))
                    /\ response' =
                         IF loaded.raised # ""
                         THEN Redirect("select_mode", "load failed")
                         ELSE Redirect("exam_question", "")
        /\ UNCHANGED <<pending, root_exists, scan, files, debug, fsWrites>>

\* GET /exam/result
exam_result ==
    \E index \in Refreshed :
        /\ refresh_index(index)
        /\ request' = [handler |-> "exam_result", form |-> EmptyDict]
        /\ IF Falsy(session, "question_set_id")
           THEN /\ response' = Redirect("select_mode", "no result")
                /\ UNCHANGED <<CACHE, session>>
           ELSE LET slug == session.question_set_id
                    answers == Get(session, "answers", <<>>)
                    loaded == load_set(slug, INDEX', CACHE, files)
                    questions == loaded.data[1].questions
                IN  /\ CACHE' = loaded.cache
                    /\ session' = exam_result_session(session, loaded)
                    /\ response' =
                         IF loaded.raised # ""
                         THEN Redirect("select_mode", "load failed")
                         ELSE Render("results.html",
                                [total |-> Len(questions),
                                 score |-> ScoreFrom(0, questions, answers)])
        /\ UNCHANGED <<pending, root_exists, scan, files, debug, fsWrites>>

\* GET /api/status
api_status ==
    \E index \in Refreshed :
        /\ refresh_index(index)
        /\ request' = [handler |-> "api_status", form |-> EmptyDict]
        /\ response' = Json([status |-> "ok"])
        /\ UNCHANGED <<pending, root_exists, scan, files, debug, CACHE,
                       session, fsWrites>>

(***************************************************************************)
(* The data directory and the requests of the model.                       *)
(***************************************************************************)
s1 == <<"s", "1">>
S2 == <<"S", "2">>          \* a file stem that _SLUG_RE rejects
zz == <<"z", "z">>          \* a well-formed slug that no file has

P1 == [mode |-> "easy", category |-> "language", stem |-> s1]
P2 == [mode |-> "full", category |-> "language", stem |-> s1]
P3 == [mode |-> "easy", category |-> "language", stem |-> S2]
Paths == {P1, P2, P3}

Question(options, answer_index) ==
    [is_dict |-> TRUE, has_prompt_html |-> TRUE, options |-> Some(options),
     answer_index |-> Some(answer_index)]

Document(path, seconds, questions) ==
    [is_dict |-> TRUE, version |-> 1, mode |-> path.mode,
     category |-> path.category, slug |-> path.stem, title |-> "title",
     has_description |-> TRUE, time_per_question_sec |-> seconds,
     questions |-> questions]

DocA(path) == Document(path, 60, <<Question(3, 1)>>)
DocB(path) == Document(path, 30, <<Question(3, 0), Question(3, 1)>>)

Parsed(data) == [parses |-> TRUE, data |-> data]
Garbage == [parses |-> FALSE, data |-> None]

\* What the model writes to a path: at easy/language/s1.json the set itself,
\* a revision of it, a set that belongs to another directory, and a file that
\* is not JSON; at full/language/s1.json a valid set with the same slug.
Contents(path) ==
    IF path = P1
    THEN {Parsed(DocA(P1)), Parsed(DocB(P1)), Parsed(DocA(P2)), Garbage}
    ELSE {Parsed(DocA(P2))}

Mtimes == {1, 2}

File(mtime, content) ==
    [mtime |-> mtime, parses |-> content.parses, data |-> content.data]

StartForms ==
    {EmptyDict, [question_set_id |-> <<>>]}
        \cup {[question_set_id |-> s] : s \in {s1, S2, zz}}

AnswerForms ==
    {EmptyDict}
        \cup {[option |-> o] :
                o \in {<<>>, <<"x">>, <<"1">>, <<"-", "1">>}}

\* The data directory changes under the running application.
WriteFile(path, mtime, content) ==
    /\ fsWrites < MaxFsWrites
    /\ root_exists' = TRUE
    /\ files' = Put(files, path, File(mtime, content))
    /\ fsWrites' = fsWrites + 1
    /\ request' = NoRequest
    /\ response' = NoResponse
    /\ UNCHANGED <<pending, debug, INDEX, EXAM_INDEX, CACHE, session, scan>>

RemoveFile(path) ==
    /\ fsWrites < MaxFsWrites
    /\ path \in DOMAIN files
    /\ files' = Pop(files, path)
    /\ fsWrites' = fsWrites + 1
    /\ request' = NoRequest
    /\ response' = NoResponse
    /\ UNCHANGED <<pending, root_exists, debug, INDEX, EXAM_INDEX, CACHE,
                   session,
                   scan>>

\* The whole data directory is removed.
RemoveRoot ==
    /\ fsWrites < MaxFsWrites
    /\ root_exists
    /\ root_exists' = FALSE
    /\ files' = EmptyDict
    /\ fsWrites' = fsWrites + 1
    /\ request' = NoRequest
    /\ response' = NoResponse
    /\ UNCHANGED <<pending, debug, INDEX, EXAM_INDEX, CACHE, session, scan>>

\* create_app: the index is built once from the data directory; nothing is
\* cached and the visitor has an empty session.
Threads == {1, 2}
NotScanning == [pc |-> "idle", todo |-> {}, index |-> EmptyDict]

\* The requests that the race model sends, each once.
Requests == {1, 2, 3, 4, 5}
NotSent == [pc |-> "idle", handler |-> "", form |-> EmptyDict,
            read |-> EmptyDict, session |-> EmptyDict,
            response |-> NoResponse]

Started(fs) ==
    /\ root_exists = TRUE
    /\ files = fs
    /\ debug \in BOOLEAN
    /\ INDEX \in build_index(TRUE, fs)
    /\ scan = [t \in Threads |-> NotScanning]
    /\ pending = [r \in Requests |-> NotSent]
    /\ EXAM_INDEX = INDEX
    /\ CACHE = EmptyDict
    /\ session = EmptyDict
    /\ request = NoRequest
    /\ response = NoResponse
    /\ fsWrites = 0

Init ==
    Started(Put(Put(EmptyDict, P1, File(1, Parsed(DocA(P1)))),
                P3, File(1, Parsed(DocA(P3)))))

Next ==
    \/ \E slug \in {s1, S2, zz} : pre_exam(slug)
    \/ \E form \in StartForms : exam_start(form)
    \/ exam_question
    \/ \E form \in AnswerForms :
          Get(session, "current_index", 0) < MaxIndex /\ exam_answer(form)
    \/ exam_result
    \/ api_status
    \/ \E path \in {P1, P2}, mtime \in Mtimes :
          \E content \in Contents(path) : WriteFile(path, mtime, content)
    \/ \E path \in Paths : RemoveFile(path)

Spec == Init /\ [][Next]_vars

(***************************************************************************)
(* The five-question scenario: one set easy_language_5q with correct       *)
(* option indices 4, 2, 3, 3, 1 and 60 seconds per question.               *)
(***************************************************************************)
easy_language_5q ==
    <<"e", "a", "s", "y", "_", "l", "a", "n", "g", "u", "a", "g", "e", "_",
      "5", "q">>

PE == [mode |-> "easy", category |-> "language", stem |-> easy_language_5q]

DocE ==
    Document(PE, 60, <<Question(5, 4), Question(5, 2), Question(5, 3),
                       Question(5, 3), Question(5, 1)>>)

ExamStartForms == {[question_set_id |-> s] : s \in {easy_language_5q, zz}}

ExamAnswerForms ==
    {EmptyDict}
        \cup {[option |-> o] : o \in {<<"1">>, <<"2">>, <<"3">>, <<"4">>, <<"9">>}}

InitExam == Started(Put(EmptyDict, PE, File(1, Parsed(DocE))))

NextExam ==
    \/ \E form \in ExamStartForms : exam_start(form)
    \/ exam_question
    \/ \E form \in ExamAnswerForms :
          Get(session, "current_index", 0) < MaxExamIndex /\ exam_answer(form)
    \/ exam_result

SpecExam == InitExam /\ [][NextExam]_vars

(***************************************************************************)
(* The question-set store on its own: build_index and load_set called      *)
(* while the data directory changes.  No request handler runs, so the      *)
(* session stays empty; request and response record the last call and its  *)
(* outcome.                                                                *)
(***************************************************************************)
\* A set whose only question has a single option: _validate_question
\* rejects it.
BadSchema(path) == Document(path, 60, <<Question(1, 0)>>)

OtherDirectory(path) == IF path = P1 THEN P2 ELSE P1

\* What the store model writes to a path: the set, a revision of it, a set
\* that names another directory, a set that fails the schema, and a file
\* that is not JSON.
StoreContents(path) ==
    {Parsed(DocA(path)), Parsed(DocB(path)),
     Parsed(DocA(OtherDirectory(path))), Parsed(BadSchema(path)), Garbage}

StoreMtimes == {1, 2, 3}

\* data_loader.load_set(slug)
LoadSet(slug) ==
    LET loaded == load_set(slug, INDEX, CACHE, files)
    IN  /\ request' = [handler |-> "load_set", form |-> [slug |-> slug]]
        /\ CACHE' = loaded.cache
        /\ response' = [kind |-> "load_set", raised |-> loaded.raised,
                        data |-> loaded.data, opened |-> loaded.opened]
        /\ UNCHANGED <<pending, root_exists, files, debug, INDEX, EXAM_INDEX,
                       session,
                       fsWrites, scan>>

\* data_loader.build_index() as refresh_index and create_app call it: the
\* returned index goes to app.config["EXAM_INDEX"]; _INDEX is assigned
\* unless the root is absent.
BuildIndex ==
    \E index \in build_index(root_exists, files) :
        /\ request' = [handler |-> "build_index", form |-> EmptyDict]
        /\ INDEX' = (IF root_exists THEN index ELSE INDEX)
        /\ EXAM_INDEX' = index
        /\ response' = [kind |-> "build_index", index |-> index]
        /\ UNCHANGED <<pending, root_exists, files, debug, CACHE, session,
                       fsWrites,
                       scan>>

InitStore ==
    /\ Started(Put(Put(EmptyDict, P1, File(2, Parsed(DocA(P1)))),
                   P3, File(2, Parsed(DocA(P3)))))
    /\ debug = FALSE

NextStore ==
    \/ \E slug \in {s1, S2, zz} : LoadSet(slug)
    \/ BuildIndex
    \/ \E path \in {P1, P2}, mtime \in StoreMtimes :
            \E content \in StoreContents(path) :
                WriteFile(path, mtime, content)
    \/ \E path \in Paths : RemoveFile(path)
    \/ RemoveRoot

SpecStore == InitStore /\ [][NextStore]_vars

(***************************************************************************)
(* Index rebuilds running beside readers.  In debug mode every request     *)
(* thread runs build_index before its handler; build_index fills a local   *)
(* dict file by file, assigns it to _INDEX in one statement and returns    *)
(* it to refresh_index, which assigns app.config["EXAM_INDEX"].  scan[t]   *)
(* is the position of thread t in build_index: the files still to visit    *)
(* and the local dict.  Readers call load_set between any two steps.  The  *)
(* index in place at the start was built from PrevFiles; the directory     *)
(* has changed since.                                                      *)
(***************************************************************************)
PrevFiles ==
    Put(Put(EmptyDict, P1, File(1, Parsed(DocA(P1)))),
        P3, File(1, Parsed(DocA(P3))))

\* The directory as the rebuilds find it.
NewFiles ==
    {Put(PrevFiles, P1, File(2, Parsed(DocB(P1)))),
     Put(Put(PrevFiles, P1, File(2, Garbage)), P2, File(2, Parsed(DocA(P2)))),
     Pop(Put(PrevFiles, P2, File(2, Parsed(DocA(P2)))), P3)}

\* A rebuild that fills the shared index in place, file by file.
index_during_scan_in_place(published, local) == local

\* _INDEX while build_index is in its loops: the loops write to the local
\* dict only (lines 84-112).
index_during_scan(published, local) == published

\* build_index, lines 83-86: the local dict is created; an absent root
\* returns it at once.
ScanStart(t) ==
    /\ scan[t].pc = "idle"
    /\ scan' = [scan EXCEPT ![t] =
                  IF root_exists
                  THEN [pc |-> "scanning", todo |-> DOMAIN files,
                        index |-> EmptyDict]
                  ELSE [pc |-> "returning", todo |-> {},
                        index |-> EmptyDict]]
    /\ INDEX' = index_during_scan(INDEX, EmptyDict)
    /\ request' = [handler |-> "build_index", form |-> EmptyDict]
    /\ response' = NoResponse
    /\ UNCHANGED <<pending, root_exists, files, debug, EXAM_INDEX, CACHE,
                   session,
                   fsWrites>>

\* build_index, lines 95-112: one file of the glob is tried and, when it
\* parses and validates, entered in the local dict.
ScanFile(t, path) ==
    /\ scan[t].pc = "scanning"
    /\ path \in scan[t].todo
    /\ LET local == IF path \in Indexable(files)
                    THEN Put(scan[t].index, path.stem,
                             ExamMeta(path, files[path].data))
                    ELSE scan[t].index
       IN  /\ scan' = [scan EXCEPT ![t].todo = @ \ {path},
                                   ![t].index = local]
           /\ INDEX' = index_during_scan(INDEX, local)
    /\ request' = [handler |-> "build_index", form |-> EmptyDict]
    /\ response' = NoResponse
    /\ UNCHANGED <<pending, root_exists, files, debug, EXAM_INDEX, CACHE,
                   session,
                   fsWrites>>

\* build_index, lines 113-114: _INDEX = index.
ScanPublish(t) ==
    /\ scan[t].pc = "scanning"
    /\ scan[t].todo = {}
    /\ scan' = [scan EXCEPT ![t].pc = "returning"]
    /\ INDEX' = scan[t].index
    /\ request' = [handler |-> "build_index", form |-> EmptyDict]
    /\ response' = NoResponse
    /\ UNCHANGED <<pending, root_exists, files, debug, EXAM_INDEX, CACHE,
                   session,
                   fsWrites>>

\* refresh_index, line 59: app.config["EXAM_INDEX"] = the returned dict.
ScanReturn(t) ==
    /\ scan[t].pc = "returning"
    /\ scan' = [scan EXCEPT ![t] = NotScanning]
    /\ EXAM_INDEX' = scan[t].index
    /\ request' = [handler |-> "build_index", form |-> EmptyDict]
    /\ response' = [kind |-> "build_index", index |-> scan[t].index]
    /\ UNCHANGED <<pending, root_exists, files, debug, INDEX, CACHE, session,
                   fsWrites>>

InitRebuild ==
    /\ root_exists = TRUE
    /\ files \in NewFiles
    /\ debug = TRUE
    /\ INDEX \in build_index(TRUE, PrevFiles)
    /\ EXAM_INDEX = INDEX
    /\ CACHE = EmptyDict
    /\ session = EmptyDict
    /\ request = NoRequest
    /\ response = NoResponse
    /\ fsWrites = 0
    /\ scan = [t \in Threads |-> NotScanning]
    /\ pending = [r \in Requests |-> NotSent]

NextRebuild ==
    \/ \E t \in Threads : ScanStart(t)
    \/ \E t \in Threads, path \in Paths : ScanFile(t, path)
    \/ \E t \in Threads : ScanPublish(t)
    \/ \E t \in Threads : ScanReturn(t)
    \/ \E slug \in {s1, S2, zz} : LoadSet(slug)

SpecRebuild == InitRebuild /\ [][NextRebuild]_vars

(***************************************************************************)
(* Requests of one visitor handled at the same time.  The session is       *)
(* Flask's cookie session (app.secret_key, line 49): the browser holds the *)
(* session in its cookie, here the variable session; a request carries the *)
(* cookie as it is when the request is sent; the handler works on its own  *)
(* copy, and the response carries the whole resulting session back, which  *)
(* replaces the browser's cookie when the response arrives.  pending[r] is *)
(* request r: the session it read, the session its handler produced and    *)
(* its response.  Requests are numbered in the order they are sent.        *)
(***************************************************************************)
RaceForms ==
    {[handler |-> "exam_start", form |-> [question_set_id |-> s1]],
     [handler |-> "exam_answer", form |-> [option |-> <<"0">>]],
     [handler |-> "exam_answer", form |-> [option |-> <<"1">>]],
     [handler |-> "exam_result", form |-> EmptyDict]}

\* What a handler makes of the session s its request carried: the session
\* it sends back, its response and the cache it leaves.
Handled(handler, form, s) ==
    LET slug == IF handler = "exam_start" THEN form.question_set_id
                ELSE s.question_set_id
        loaded == load_set(slug, INDEX', CACHE, files)
        failed == [session |-> s, cache |-> loaded.cache,
                   response |-> Redirect("select_mode", "load failed")]
    IN  IF handler = "exam_start"
        THEN IF Falsy(form, "question_set_id")
                \/ form.question_set_id \notin DOMAIN EXAM_INDEX'
             THEN [session |-> s, cache |-> CACHE,
                   response |-> Redirect("select_mode",
                                         "invalid question set")]
             ELSE IF loaded.raised # "" THEN failed
             ELSE [session |-> exam_start_session(s, slug, loaded),
                   cache |-> loaded.cache,
                   response |-> Redirect("exam_question", "")]
        ELSE IF Falsy(s, "question_set_id")
        THEN [session |-> s, cache |-> CACHE,
              response |-> Redirect("select_mode",
                                    IF handler = "exam_answer"
                                    THEN "session invalid"
                                    ELSE "no result")]
        ELSE IF loaded.raised # "" THEN failed
        ELSE IF handler = "exam_answer"
        THEN [session |-> exam_answer_session(s, loaded,
                                              selected_index(form)),
              cache |-> loaded.cache,
              response |-> Redirect("exam_question", "")]
        ELSE [session |-> exam_result_session(s, loaded),
              cache |-> loaded.cache,
              response |->
                  Render("results.html",
                         [total |-> Len(loaded.data[1].questions),
                          score |-> ScoreFrom(0, loaded.data[1].questions,
                                              Get(s, "answers", <<>>))])]

\* A cookie jar that keeps the longer of two answers lists.
cookie_after_response_merged(cookie, sent) ==
    IF /\ "answers" \in DOMAIN cookie
       /\ "answers" \in DOMAIN sent
       /\ Len(sent.answers) > 0
       /\ Len(cookie.answers) >= Len(sent.answers)
    THEN [sent EXCEPT !["answers"] =
             Append(cookie.answers, sent.answers[Len(sent.answers)])]
    ELSE sent

\* The browser's cookie after a response: the session the response
\* carries, whole.
cookie_after_response(cookie, sent) == sent

\* The browser sends request r with its cookie.
Send(r, handler, form) ==
    /\ pending[r].pc = "idle"
    /\ \A q \in Requests : q < r => pending[q].pc # "idle"
    /\ pending' = [pending EXCEPT ![r] =
                     [pc |-> "sent", handler |-> handler, form |-> form,
                      read |-> session, session |-> session,
                      response |-> NoResponse]]
    /\ UNCHANGED <<root_exists, files, debug, INDEX, EXAM_INDEX, CACHE,
                   session, request, response, fsWrites, scan>>

\* A server thread runs refresh_index and the handler of request r.
Handle(r) ==
    /\ pending[r].pc = "sent"
    /\ \E index \in Refreshed :
         /\ refresh_index(index)
         /\ LET done == Handled(pending[r].handler, pending[r].form,
                                pending[r].read)
            IN  /\ CACHE' = done.cache
                /\ pending' = [pending EXCEPT ![r].pc = "handled",
                                              ![r].session = done.session,
                                              ![r].response = done.response]
    /\ UNCHANGED <<root_exists, files, debug, session, request, response,
                   fsWrites, scan>>

\* The response of request r reaches the browser.
Receive(r) ==
    /\ pending[r].pc = "handled"
    /\ pending' = [pending EXCEPT ![r].pc = "done"]
    /\ session' = cookie_after_response(session, pending[r].session)
    /\ request' = [handler |-> pending[r].handler, form |-> pending[r].form]
    /\ response' = pending[r].response
    /\ UNCHANGED <<root_exists, files, debug, INDEX, EXAM_INDEX, CACHE,
                   fsWrites, scan>>

InitRace ==
    /\ Started(Put(EmptyDict, P1, File(1, Parsed(DocB(P1)))))
    /\ debug = FALSE

NextRace ==
    \/ \E r \in Requests, f \in RaceForms : Send(r, f.handler, f.form)
    \/ \E r \in Requests : Handle(r)
    \/ \E r \in Requests : Receive(r)

SpecRace == InitRace /\ [][NextRace]_vars

(***************************************************************************)
(* Properties.                                                             *)
(***************************************************************************)
InProgress(s) == ~Falsy(s, "question_set_id")
Idle(s) == \A k \in SessionFields : k \notin DOMAIN s

\* The set that the handler of this step got from load_set.
LoadedNow == load_set(session.question_set_id, INDEX', CACHE, files)

CorrectIndices(questions) ==
    [i \in 1..Len(questions) |-> questions[i].answer_index[1]]

\* C1: exam_result on a session in progress whose set loads returns total =
\* the number of questions of the set as loaded by that call and score = the
\* number of indices i in 0..total-1 with i < len(answers), answers[i] present
\* and equal to the correct option index of question i; with correct indices
\* 4,2,3,3,1 the answers 4,2,3,3,1 score 5 of 5 and 4,absent,3,9,1 score 3.
C1_ScoreCountsCorrectAnswers ==
    [][(request'.handler = "exam_result" /\ response'.kind = "render") =>
         LET answers == Get(session, "answers", <<>>)
             questions == LoadedNow.data[1].questions
             total == Len(questions)
             correct == CorrectIndices(questions)
             matches == {i \in 0..(total - 1) :
                            /\ i < Len(answers)
                            /\ answers[i + 1] # None
                            /\ answers[i + 1][1] = correct[i + 1]}
         IN  /\ InProgress(session)
             /\ LoadedNow.raised = ""
             /\ response'.template = "results.html"
             /\ response'.context.total = total
             /\ response'.context.score = Cardinality(matches)
             /\ (correct = <<4, 2, 3, 3, 1>>
                   /\ answers = <<Some(4), Some(2), Some(3), Some(3), Some(1)>>)
                  => response'.context = [total |-> 5, score |-> 5]
             /\ (correct = <<4, 2, 3, 3, 1>>
                   /\ answers = <<Some(4), None, Some(3), Some(9), Some(1)>>)
                  => response'.context = [total |-> 5, score |-> 3]]_vars

\* A result of 3 out of 5 has been returned.
C1_Witness ==
    /\ request.handler = "exam_result"
    /\ response.kind = "render"
    /\ response.context = [total |-> 5, score |-> 3]

\* The slug a start request submits, and what load_set does for it in the
\* step that handles the request.
StartSlug == request'.form.question_set_id
StartLoaded == load_set(StartSlug, INDEX', CACHE, files)
StartRejected ==
    \/ Falsy(request'.form, "question_set_id")
    \/ StartSlug \notin DOMAIN EXAM_INDEX'
    \/ StartLoaded.raised # ""

Failed(resp) == resp.kind = "redirect" /\ resp.endpoint = "select_mode"

\* C2: exam_start with a slug that is absent or empty, not in the index, or
\* for which load_set raises, redirects to mode selection and writes no
\* session field: the session after the call is the session before it.
C2_RejectedStartWritesNothing ==
    [][(request'.handler = "exam_start" /\ StartRejected) =>
         /\ session' = session
         /\ Failed(response')
         /\ (Idle(session) => Idle(session'))]_vars

\* An indexed slug was asked for, load_set raised and the session is idle.
C2_Witness ==
    /\ request.handler = "exam_start"
    /\ ~Falsy(request.form, "question_set_id")
    /\ request.form.question_set_id \in DOMAIN EXAM_INDEX
    /\ response = Redirect("select_mode", "load failed")
    /\ Idle(session)

\* C3: a successful exam_start (slug in the index, load_set returns) leaves
\* the session in progress with question_set_id the given slug,
\* current_index 0, answers empty and time_per_question_sec that of the set
\* load_set returned in that call, whatever the session held before.
C3_StartInitialisesSession ==
    [][(request'.handler = "exam_start" /\ ~StartRejected) =>
         /\ SessionFields \subseteq DOMAIN session'
         /\ InProgress(session')
         /\ session'.question_set_id = StartSlug
         /\ session'.current_index = 0
         /\ session'.answers = <<>>
         /\ session'.time_per_question_sec
               = StartLoaded.data[1].time_per_question_sec
         /\ response' = Redirect("exam_question", "")]_vars

\* A start has succeeded whose time limit comes from the loaded set and
\* differs from the one the index records for the slug.
C3_Witness ==
    /\ request.handler = "exam_start"
    /\ response = Redirect("exam_question", "")
    /\ session.current_index = 0
    /\ session.time_per_question_sec
          # EXAM_INDEX[session.question_set_id].time_per_question_sec

\* C4: an exam_result that returns a score starts from a session in progress
\* and leaves all four session fields absent; an exam_result on an idle
\* session fails with "no result" and leaves it idle; and only a successful
\* exam_start takes the session from idle to in progress.  So each successful
\* start is followed by at most one scored result.
C4_ResultShownOncePerStart ==
    [][/\ (request'.handler = "exam_result" /\ response'.kind = "render")
            => (InProgress(session) /\ Idle(session'))
       /\ (request'.handler = "exam_result" /\ ~InProgress(session))
            => (/\ response' = Redirect("select_mode", "no result")
                /\ session' = session)
       /\ (~InProgress(session) /\ InProgress(session'))
            => (/\ request'.handler = "exam_start"
                /\ response' = Redirect("exam_question", ""))]_vars

\* A second exam_result after the session of an attempt was cleared.
C4_Witness ==
    /\ request.handler = "exam_result"
    /\ response = Redirect("select_mode", "no result")
    /\ "_permanent" \in DOMAIN session
    /\ Idle(session)

\* C5 as claimed: exam_result on a session in progress always leaves the
\* session idle, also when the set can not be loaded.
C5_ResultAlwaysClears ==
    [][(request'.handler = "exam_result" /\ InProgress(session))
         => Idle(session')]_vars

\* C5 amended: exam_result on a session in progress clears the four session
\* fields exactly when load_set returns the set; when load_set raises the
\* call redirects to mode selection and leaves the session as it was.
C5_ResultClearsWhenLoaded ==
    [][(request'.handler = "exam_result" /\ InProgress(session)) =>
         IF LoadedNow.raised = ""
         THEN Idle(session') /\ response'.kind = "render"
         ELSE /\ session' = session
              /\ response' = Redirect("select_mode", "load failed")]_vars

\* An exam_result failed to load the set and the attempt is still there.
C5_Witness ==
    /\ request.handler = "exam_result"
    /\ response = Redirect("select_mode", "load failed")
    /\ InProgress(session)
    /\ SessionFields \subseteq DOMAIN session

\* The state an exam_answer step starts from.
CurrentIndex == Get(session, "current_index", 0)
Answers == Get(session, "answers", <<>>)
AnswerStep == request'.handler = "exam_answer"

\* C6 as claimed: every exam_answer on a session in progress increases
\* current_index by exactly one, whatever the state of the store.
C6_AnswerAlwaysAdvances ==
    [][(AnswerStep /\ InProgress(session))
         => (/\ "current_index" \in DOMAIN session'
             /\ session'.current_index = CurrentIndex + 1)]_vars

\* C6 amended: exam_answer on a session in progress whose set load_set
\* returns in that call increases current_index by exactly one whatever the
\* submitted value; when load_set raises, the call redirects to mode
\* selection and leaves the session as it was; on an idle session it fails
\* with "session invalid" and leaves the session as it was.
C6_AnswerAdvancesWhenLoaded ==
    [][AnswerStep =>
         IF ~InProgress(session)
         THEN /\ session' = session
              /\ response' = Redirect("select_mode", "session invalid")
         ELSE IF LoadedNow.raised # ""
         THEN /\ session' = session
              /\ response' = Redirect("select_mode", "load failed")
         ELSE /\ session'.current_index = CurrentIndex + 1
              /\ response' = Redirect("exam_question", "")]_vars

\* An exam_answer failed to load the set and did not advance.
C6_Witness ==
    /\ request.handler = "exam_answer"
    /\ response = Redirect("select_mode", "load failed")
    /\ InProgress(session)

\* C7: exam_answer checks no bound: with current_index equal to or above the
\* number of questions of the set load_set returns, the call still stores
\* the submitted value in answers and increases current_index by one.
C7_AnswerPastLastQuestion ==
    [][(/\ AnswerStep
        /\ InProgress(session)
        /\ LoadedNow.raised = ""
        /\ CurrentIndex >= Len(LoadedNow.data[1].questions))
         => (/\ session'.current_index = CurrentIndex + 1
             /\ Len(session'.answers) = Len(Answers) + 1
             /\ session'.answers[CurrentIndex + 1]
                   = selected_index(request'.form)
             /\ response' = Redirect("exam_question", ""))]_vars

\* An answer was accepted that took current_index and len(answers) above the
\* number of questions of the set in the file.
C7_Witness ==
    /\ request.handler = "exam_answer"
    /\ response = Redirect("exam_question", "")
    /\ InProgress(session)
    /\ session.question_set_id \in DOMAIN INDEX
    /\ session.current_index > INDEX[session.question_set_id].num_questions
    /\ Len(session.answers) > INDEX[session.question_set_id].num_questions
    /\ INDEX[session.question_set_id].path \in DOMAIN files
    /\ files[INDEX[session.question_set_id].path].parses
    /\ session.current_index
          > Len(files[INDEX[session.question_set_id].path].data.questions)

\* Two accepted submissions in a row: the second exam_answer arrives while
\* the last request handled was an accepted exam_answer, so both come from
\* the page of one question.
Resubmission ==
    /\ request.handler = "exam_answer"
    /\ response = Redirect("exam_question", "")
    /\ AnswerStep
    /\ response' = Redirect("exam_question", "")

\* C8 as claimed: the second submission overwrites the slot of the first:
\* answers keeps its length and the slot holds the second value.
C8_ResubmissionOverwrites ==
    [][Resubmission =>
         (/\ Len(session'.answers) = Len(session.answers)
          /\ session'.answers[Len(session.answers)]
                = selected_index(request'.form))]_vars

\* C8 amended: the second submission is neither rejected nor written over
\* the first: it is stored in a new slot at the next index, the slot of the
\* first submission keeps the first value, and current_index has advanced
\* by one for each of the two submissions.
C8_ResubmissionAppends ==
    [][Resubmission =>
         (/\ Len(session'.answers) = Len(session.answers) + 1
          /\ Len(session.answers) = session.current_index
          /\ SubSeq(session'.answers, 1, Len(session.answers))
                = session.answers
          /\ session'.answers[Len(session.answers) + 1]
                = selected_index(request'.form)
          /\ session'.current_index = session.current_index + 1)]_vars

\* Two submissions were accepted and sit in two slots with their own values.
C8_Witness ==
    /\ request.handler = "exam_answer"
    /\ response = Redirect("exam_question", "")
    /\ Len(session.answers) = 2
    /\ session.current_index = 2
    /\ session.answers[1] = Some(1)
    /\ session.answers[2] = Some(0 - 1)

\* The value C9 expects in answers for a submitted form.
Recorded(form) ==
    CASE "option" \notin DOMAIN form -> None
      [] form = [option |-> <<>>] -> None
      [] form = [option |-> <<"x">>] -> None
      [] form = [option |-> <<"1">>] -> Some(1)
      [] form = [option |-> <<"-", "1">>] -> Some(0 - 1)

\* C9: exam_answer never fails because of the submitted value: whether the
\* call is accepted depends on the session and on load_set only; an absent,
\* empty or non-integer option is stored as None and any integer, in range or
\* not, negative or not, is stored as it is, and the call advances.
C9_AnySubmittedValueIsRecorded ==
    [][(AnswerStep /\ InProgress(session)) =>
         /\ Failed(response') <=> (LoadedNow.raised # "")
         /\ (LoadedNow.raised = "") =>
              (/\ session'.answers[CurrentIndex + 1] = Recorded(request'.form)
               /\ session'.current_index = CurrentIndex + 1
               /\ response' = Redirect("exam_question", ""))]_vars

\* An absent answer and then a negative number were recorded.
C9_Witness ==
    /\ request = [handler |-> "exam_answer", form |-> [option |-> <<"-", "1">>]]
    /\ response = Redirect("exam_question", "")
    /\ session.answers = <<None, Some(0 - 1)>>

\* C10: exam_question never changes the session.  On a session in progress
\* whose set load_set returns, it redirects to the result exactly when
\* current_index >= the number of questions of that set and otherwise
\* renders the question at current_index with that index and the total;
\* current_index is the number of answers recorded since the start.
C10_QuestionShowsCurrentOrFinishes ==
    [][(request'.handler = "exam_question") =>
         /\ session' = session
         /\ (InProgress(session) /\ LoadedNow.raised = "") =>
              LET questions == LoadedNow.data[1].questions
                  k == Len(Answers)
              IN  /\ CurrentIndex = k
                  /\ IF k >= Len(questions)
                     THEN response' = Redirect("exam_result", "")
                     ELSE /\ response'.kind = "render"
                          /\ response'.template = "exam.html"
                          /\ response'.context.question = questions[k + 1]
                          /\ response'.context.index = k
                          /\ response'.context.total = Len(questions)]_vars

\* exam_question signalled the end with more answers recorded than the set
\* has questions.
C10_Witness ==
    /\ request.handler = "exam_question"
    /\ response = Redirect("exam_result", "")
    /\ InProgress(session)
    /\ session.question_set_id \in DOMAIN INDEX
    /\ Len(session.answers) > INDEX[session.question_set_id].num_questions

(***************************************************************************)
(* C11                                                                     *)
(***************************************************************************)
\* The session's time_per_question_sec entry: None when the key is absent.
TimeField(s) ==
    IF "time_per_question_sec" \in DOMAIN s
    THEN Some(s["time_per_question_sec"]) ELSE None

QuestionShown ==
    /\ request'.handler = "exam_question"
    /\ response'.kind = "render"

\* C11: the time limit a question page of an exam in progress shows is the
\* session's time_per_question_sec, the value exam_start stored, whatever
\* the set loaded for that page says; and the session's
\* time_per_question_sec changes only in an exam_start request, which sets
\* it to the value of the set it loaded, or in an exam_result request, which
\* removes it.
C11_TimeLimitIsStartSnapshot ==
    [][/\ (QuestionShown /\ InProgress(session))
           => /\ Some(response'.context.time_limit) = TimeField(session)
              /\ session' = session
       /\ TimeField(session') # TimeField(session)
           => \/ /\ request'.handler = "exam_start"
                 /\ StartLoaded.raised = ""
                 /\ TimeField(session')
                      = Some(StartLoaded.data[1].time_per_question_sec)
              \/ /\ request'.handler = "exam_result"
                 /\ TimeField(session') = None]_vars

\* A question page shown with a time limit that differs from that of the
\* set as it was loaded for the page.
C11_Witness ==
    /\ request.handler = "exam_question"
    /\ response.kind = "render"
    /\ InProgress(session)
    /\ session.question_set_id \in DOMAIN CACHE
    /\ response.context.time_limit
         # CACHE[session.question_set_id].data.time_per_question_sec

(***************************************************************************)
(* C12                                                                     *)
(***************************************************************************)
ResultShown ==
    /\ request'.handler = "exam_result"
    /\ InProgress(session)
    /\ response'.kind = "render"

\* The file that the index names for the session's slug in this step.
SetPath == INDEX'[session.question_set_id].path

Scored(data) ==
    /\ response'.context.total = Len(data.questions)
    /\ response'.context.score
         = ScoreFrom(0, data.questions, Get(session, "answers", <<>>))

\* C12 as stated: every result is scored against the set as the backing
\* file holds it at scoring time.
C12_ScoredAgainstFile ==
    [][ResultShown
        => /\ SetPath \in DOMAIN files
           /\ files[SetPath].parses
           /\ Scored(files[SetPath].data)]_vars

\* C12, amended: a result is scored against the set as the backing file
\* holds it at scoring time when nothing is cached for the slug or the
\* file's modification time is greater than the one recorded in the cache;
\* otherwise it is scored against the cached copy.
C12_ScoredAgainstFileWhenNewer ==
    [][ResultShown
        => LET slug == session.question_set_id
           IN  /\ SetPath \in DOMAIN files
               /\ IF \/ slug \notin DOMAIN CACHE
                     \/ CACHE[slug].mtime < files[SetPath].mtime
                  THEN /\ files[SetPath].parses
                       /\ Scored(files[SetPath].data)
                  ELSE Scored(CACHE[slug].data)]_vars

\* A result scored against a file that was rewritten, with another correct
\* option index and a newer modification time, after the set was cached.
C12_Witness ==
    /\ request.handler = "exam_result"
    /\ response.kind = "render"
    /\ fsWrites = 1
    /\ P1 \in DOMAIN files
    /\ files[P1] = File(2, Parsed(DocB(P1)))
    /\ s1 \in DOMAIN CACHE
    /\ CACHE[s1] = [mtime |-> 2, data |-> DocB(P1)]
    /\ response.context.total = 2
    /\ response.context.score = 1

(***************************************************************************)
(* C14                                                                     *)
(***************************************************************************)
\* C14 as stated: every slug of the index matches the slug pattern, and
\* load_set of an indexed slug does not raise ValueError("invalid slug").
C14_IndexedSlugsMatchPattern ==
    \A slug \in DOMAIN INDEX :
        /\ SLUG_RE_match(slug)
        /\ load_set(slug, INDEX, CACHE, files).raised
             # "ValueError: invalid slug"

(***************************************************************************)
(* C15                                                                     *)
(***************************************************************************)
\* C15 as stated: in every state, for every indexed slug for which load_set
\* succeeds, the index entry's num_questions and time_per_question_sec are
\* those of the set load_set returns.
C15_IndexAgreesWithLoadedSet ==
    \A slug \in DOMAIN INDEX :
        LET loaded == load_set(slug, INDEX, CACHE, files)
        IN  loaded.raised = ""
            => /\ INDEX[slug].num_questions = Len(loaded.data[1].questions)
               /\ INDEX[slug].time_per_question_sec
                    = loaded.data[1].time_per_question_sec

(***************************************************************************)
(* C13                                                                     *)
(***************************************************************************)
\* The file at path parses and passes validation against its own directory
\* and file names.
ValidAtLocation(path) ==
    /\ files[path].parses
    /\ validate_exam(files[path].data, path.mode, path.category, path.stem)

\* C13: the index build_index returns is empty when the root is absent;
\* otherwise it has a slug exactly when some file mode/category/slug.json
\* parses and validates against its location, whatever the other files
\* are, and each entry names such a file of that slug and has num_questions
\* equal to the length of that file's questions.
C13_IndexHoldsExactlyValidFiles ==
    request.handler = "build_index"
    => LET index == response.index
       IN  IF ~root_exists THEN index = EmptyDict
           ELSE /\ \A path \in DOMAIN files :
                     ValidAtLocation(path) => path.stem \in DOMAIN index
                /\ \A slug \in DOMAIN index :
                     LET path == index[slug].path
                     IN  /\ path \in DOMAIN files
                         /\ path.stem = slug
                         /\ ValidAtLocation(path)
                         /\ index[slug].num_questions
                              = Len(files[path].data.questions)

\* build_index returned an index without s1, whose only file is rejected,
\* and with the slug of the other file.
C13_Witness ==
    /\ request.handler = "build_index"
    /\ root_exists
    /\ P1 \in DOMAIN files
    /\ ~ValidAtLocation(P1)
    /\ P2 \notin DOMAIN files
    /\ s1 \notin DOMAIN response.index
    /\ S2 \in DOMAIN response.index

(***************************************************************************)
(* C16                                                                     *)
(***************************************************************************)
LoadSetStep(slug) ==
    /\ request'.handler = "load_set"
    /\ request'.form.slug = slug

Rejected(exc) ==
    /\ response'.raised = exc
    /\ ~response'.opened
    /\ CACHE' = CACHE

\* C16 as stated: load_set of a slug that does not match the pattern raises
\* ValueError("invalid slug"), also when the index has the slug; load_set
\* of a slug that matches the pattern and is not in the index that the
\* latest build_index returned raises KeyError; neither opens a file or
\* changes the cache.
C16_RejectsWithoutReading ==
    [][\A slug \in {s1, S2, zz} :
        LoadSetStep(slug)
        => /\ ~SLUG_RE_match(slug) => Rejected("ValueError: invalid slug")
           /\ (SLUG_RE_match(slug) /\ slug \notin DOMAIN EXAM_INDEX)
                => Rejected("KeyError")]_vars

(***************************************************************************)
(* C17                                                                     *)
(***************************************************************************)
\* The last call was load_set(slug) and it returned a set.
JustLoaded(slug) ==
    /\ request.handler = "load_set"
    /\ request.form.slug = slug
    /\ response.raised = ""

\* C17: in every state reached by a successful load_set(slug), a further
\* load_set(slug) made with the files and the index as they are returns the
\* same content, does not open the file and leaves the cache as it is.
C17_RepeatedLoadIsCacheHit ==
    \A slug \in {s1, S2, zz} :
        JustLoaded(slug)
        => LET again == load_set(slug, INDEX, CACHE, files)
           IN  /\ again.raised = ""
               /\ again.data = response.data
               /\ ~again.opened
               /\ again.cache = CACHE

\* load_set returned the cached copy of a file whose modification time is
\* the one recorded in the cache.
C17_Witness ==
    /\ JustLoaded(s1)
    /\ ~response.opened
    /\ s1 \in DOMAIN CACHE
    /\ response.data = Some(CACHE[s1].data)
    /\ INDEX[s1].path \in DOMAIN files
    /\ files[INDEX[s1].path].mtime = CACHE[s1].mtime

(***************************************************************************)
(* C18                                                                     *)
(***************************************************************************)
\* The cache holds a set for slug and the file the index names for slug has
\* that very content, valid for the index entry: the file is as it was when
\* load_set cached it, except perhaps for its modification time.
CachedContentInFile(slug) ==
    /\ slug \in DOMAIN CACHE
    /\ slug \in DOMAIN INDEX
    /\ INDEX[slug].path \in DOMAIN files
    /\ files[INDEX[slug].path].parses
    /\ files[INDEX[slug].path].data = CACHE[slug].data
    /\ validate_exam(CACHE[slug].data, INDEX[slug].mode,
                     INDEX[slug].category, INDEX[slug].slug)

FileMtime(slug) == files[INDEX[slug].path].mtime

\* C18 as stated: when the file's modification time differs from the one
\* recorded at the successful load_set, the next load_set opens the file.
C18_AnyOtherMtimeRereads ==
    \A slug \in {s1, S2, zz} :
        (CachedContentInFile(slug) /\ FileMtime(slug) # CACHE[slug].mtime)
        => load_set(slug, INDEX, CACHE, files).opened

\* C18, amended: when the file's modification time is greater than the one
\* recorded in the cache, the next load_set opens the file, returns its
\* content and records the new modification time, and the load_set after
\* that one returns the same content without opening the file; when the
\* file's modification time is lower than or equal to the recorded one, the
\* next load_set returns the cached copy without opening the file.
C18_GreaterMtimeRereadsOnce ==
    \A slug \in {s1, S2, zz} :
        CachedContentInFile(slug)
        => LET next == load_set(slug, INDEX, CACHE, files)
               after == load_set(slug, INDEX, next.cache, files)
           IN  IF FileMtime(slug) > CACHE[slug].mtime
               THEN /\ next.opened
                    /\ next.raised = ""
                    /\ next.data = Some(CACHE[slug].data)
                    /\ next.cache[slug].mtime = FileMtime(slug)
                    /\ ~after.opened
                    /\ after.data = next.data
                    /\ after.cache = next.cache
               ELSE /\ ~next.opened
                    /\ next.raised = ""
                    /\ next.data = Some(CACHE[slug].data)
                    /\ next.cache = CACHE

\* The set was loaded from the file with modification time 2 and the file
\* now has the same content with modification time 3.
C18_Witness ==
    /\ CachedContentInFile(s1)
    /\ CACHE[s1].mtime = 2
    /\ FileMtime(s1) = 3
    /\ fsWrites = 1

(***************************************************************************)
(* C19                                                                     *)
(***************************************************************************)
\* The cache holds a set for slug and the file the index names for slug is
\* newer than the cached entry, parses, and fails validation against the
\* index entry.
NewerInvalidFile(slug) ==
    /\ slug \in DOMAIN CACHE
    /\ slug \in DOMAIN INDEX
    /\ INDEX[slug].path \in DOMAIN files
    /\ FileMtime(slug) > CACHE[slug].mtime
    /\ files[INDEX[slug].path].parses
    /\ ~validate_exam(files[INDEX[slug].path].data, INDEX[slug].mode,
                      INDEX[slug].category, INDEX[slug].slug)

\* load_set of a slug with a newer, invalid file raises ValueError("invalid
\* exam data") after opening the file, returns nothing and leaves the cache
\* as it was, so that the load_set after it opens the file again.
InvalidRereadKeepsCache ==
    \A slug \in {s1, S2, zz} :
        NewerInvalidFile(slug)
        => LET next == load_set(slug, INDEX, CACHE, files)
               after == load_set(slug, INDEX, next.cache, files)
           IN  /\ next.raised = "ValueError: invalid exam data"
               /\ next.data = None
               /\ next.opened
               /\ next.cache = CACHE
               /\ after.opened

\* Every cache entry passes validation for its slug and its own mode and
\* category.
CacheHoldsValidatedData ==
    \A slug \in DOMAIN CACHE :
        validate_exam(CACHE[slug].data, CACHE[slug].data.mode,
                      CACHE[slug].data.category, slug)

\* The cache changes only in a load_set that returns a set: the entry of
\* its slug becomes the file's modification time and the set returned, a
\* set valid for the index entry, and no other entry changes.
CacheReplacedOnSuccess ==
    CACHE' # CACHE
    => /\ request'.handler = "load_set"
       /\ response'.raised = ""
       /\ LET slug == request'.form.slug
          IN  /\ DOMAIN CACHE' = DOMAIN CACHE \cup {slug}
              /\ \A other \in DOMAIN CACHE :
                    other # slug => CACHE'[other] = CACHE[other]
              /\ CACHE'[slug] = [mtime |-> FileMtime(slug),
                                 data |-> response'.data[1]]
              /\ response'.data[1] = files[INDEX[slug].path].data
              /\ validate_exam(response'.data[1], INDEX[slug].mode,
                               INDEX[slug].category, INDEX[slug].slug)

\* C19: a re-read of a newer file that fails validation against the index
\* entry raises ValueError("invalid exam data"), returns no set and leaves
\* the cache unchanged, so the next load_set re-reads the file; the cache
\* entry is replaced by (file mtime, parsed data) only by a load_set whose
\* validation succeeds, and every cache entry holds validated data.
C19_InvalidRereadLeavesCache ==
    /\ [](InvalidRereadKeepsCache /\ CacheHoldsValidatedData)
    /\ [][CacheReplacedOnSuccess]_vars

\* load_set raised ValueError("invalid exam data") on a file newer than the
\* cached entry, and the cache still holds the older set.
C19_Witness ==
    /\ request.handler = "load_set"
    /\ request.form.slug = s1
    /\ response.raised = "ValueError: invalid exam data"
    /\ response.opened
    /\ NewerInvalidFile(s1)
    /\ CACHE[s1] = [mtime |-> 2, data |-> DocA(P1)]

(***************************************************************************)
(* C20                                                                     *)
(***************************************************************************)
\* The indexes a complete scan can produce, before and after the change of
\* the directory.
CompleteIndexes ==
    build_index(TRUE, PrevFiles) \cup build_index(root_exists, files)

\* C20: at every moment, with rebuilds in any position, the index that
\* load_set reads and the index that exam_start reads are each the whole
\* result of a scan of the previous directory or of the present one.
C20_IndexPublishedWhole ==
    /\ INDEX \in CompleteIndexes
    /\ EXAM_INDEX \in CompleteIndexes

\* load_set ran against the previous index while a rebuild had entered
\* some but not all of the new index.
C20_Witness ==
    /\ request.handler = "load_set"
    /\ INDEX \in build_index(TRUE, PrevFiles)
    /\ \E t \in Threads :
         /\ scan[t].pc = "scanning"
         /\ scan[t].index # EmptyDict
         /\ scan[t].index \notin CompleteIndexes

(***************************************************************************)
(* C21                                                                     *)
(***************************************************************************)
\* The response is the redirect to mode selection with this flash message,
\* and the session is as it was.
FailsWith(message) ==
    /\ response' = Redirect("select_mode", message)
    /\ session' = session

\* C21: exam_question and exam_answer on a session without the four fields
\* redirect to mode selection ("exam not started", "session invalid");
\* exam_question on a session in progress whose set load_set can not load
\* redirects to mode selection ("load failed"); each of these leaves the
\* session as it was.
C21_FailuresRedirectAndKeepSession ==
    [][/\ (request'.handler = "exam_question" /\ Idle(session))
           => FailsWith("exam not started")
       /\ (request'.handler = "exam_answer" /\ Idle(session))
           => FailsWith("session invalid")
       /\ (/\ request'.handler = "exam_question"
           /\ InProgress(session)
           /\ LoadedNow.raised # "")
           => FailsWith("load failed")]_vars

\* exam_question failed on an exam in progress, after an answer, because
\* the set's file is gone.
C21_Witness ==
    /\ request.handler = "exam_question"
    /\ response = Redirect("select_mode", "load failed")
    /\ InProgress(session)
    /\ session.current_index = 1
    /\ Len(session.answers) = 1
    /\ P1 \notin DOMAIN files

(***************************************************************************)
(* C22                                                                     *)
(***************************************************************************)
\* C22: in every state reached by requests handled one after the other, a
\* session in progress has len(answers) = current_index; so every accepted
\* exam_answer finds len(answers) <= index and appends, making answers one
\* longer, and never writes into an existing slot.
C22_AnswersLengthIsCurrentIndex ==
    /\ [](InProgress(session) => Len(Answers) = CurrentIndex)
    /\ [][(AnswerStep /\ InProgress(session) /\ LoadedNow.raised = "")
            => /\ Len(Answers) <= CurrentIndex
               /\ session'.answers
                    = Append(Answers, selected_index(request'.form))]_vars

\* Two answers were accepted, the first without a selection: two slots,
\* current_index 2.
C22_Witness ==
    /\ request.handler = "exam_answer"
    /\ InProgress(session)
    /\ CurrentIndex = 2
    /\ Len(Answers) = 2
    /\ Answers[1] = None

(***************************************************************************)
(* C23                                                                     *)
(***************************************************************************)
AllFieldsPresent(s) == \A k \in SessionFields : k \in DOMAIN s

\* C23: in every state reached by requests handled one after the other,
\* accepted or failing, the session has all of question_set_id,
\* current_index, answers and time_per_question_sec, with a non-empty
\* question_set_id, or none of them.
C23_SessionFieldsAllOrNone ==
    \/ Idle(session)
    \/ AllFieldsPresent(session) /\ InProgress(session)

\* A failed exam_result left an exam in progress with all four fields, one
\* answer stored.
C23_Witness ==
    /\ request.handler = "exam_result"
    /\ response = Redirect("select_mode", "load failed")
    /\ AllFieldsPresent(session)
    /\ InProgress(session)
    /\ Len(session.answers) = 1

(***************************************************************************)
(* C24                                                                     *)
(***************************************************************************)
\* C24 as stated: the set a successful load_set(slug) has just returned has
\* the mode, category and slug of the index entry for slug and is the
\* content of the file that entry names.
C24_LoadedSetIsIndexedFile ==
    \A slug \in {s1, S2, zz} :
        JustLoaded(slug)
        => LET data == response.data[1]
               meta == INDEX[slug]
           IN  /\ data.mode = meta.mode
               /\ data.category = meta.category
               /\ data.slug = meta.slug
               /\ meta.path \in DOMAIN files
               /\ files[meta.path].parses
               /\ data = files[meta.path].data

(***************************************************************************)
(* C25                                                                     *)
(***************************************************************************)
\* Requests q and r ran the same handler on the same session of an exam in
\* progress, with len(answers) = current_index, and both were accepted; the
\* response of q has arrived.
SameRead(q, r, handler) ==
    /\ q # r
    /\ pending[q].pc = "done"
    /\ pending[r].pc = "handled"
    /\ pending[q].handler = handler
    /\ pending[r].handler = handler
    /\ pending[q].read = pending[r].read
    /\ InProgress(pending[r].read)
    /\ Len(pending[r].read.answers) = pending[r].read.current_index
    /\ ~Failed(pending[q].response)
    /\ ~Failed(pending[r].response)

\* The response of r arrives in this step.
Arrives(r) == pending[r].pc = "handled" /\ pending'[r].pc = "done"

\* C25: when the second response of two exam_answer requests that read
\* the same session (current_index = i, len(answers) = i) arrives, the
\* session has current_index = i + 1 and answers = the i answers read plus
\* one slot holding the value of one of the two submissions, the other
\* fields as read; when the second response of two exam_result requests
\* that read the same session arrives, both responses are the result page
\* with the same score and the session has none of the four fields.
C25_RacingRequestsLoseOneUpdate ==
    [][\A q, r \in Requests :
        /\ (SameRead(q, r, "exam_answer") /\ Arrives(r))
            => LET read == pending[r].read
                   i == read.current_index
               IN  /\ AllFieldsPresent(session')
                   /\ session'.current_index = i + 1
                   /\ Len(session'.answers) = i + 1
                   /\ SubSeq(session'.answers, 1, i) = read.answers
                   /\ session'.answers[i + 1]
                        \in {selected_index(pending[q].form),
                             selected_index(pending[r].form)}
                   /\ session'.question_set_id = read.question_set_id
                   /\ session'.time_per_question_sec
                        = read.time_per_question_sec
        /\ (SameRead(q, r, "exam_result") /\ Arrives(r))
            => /\ pending[r].response.kind = "render"
               /\ pending[r].response = pending[q].response
               /\ Idle(session')]_vars

\* Two exam_answer requests with different options read the same session
\* at index 0 and were both accepted; then two exam_result requests read
\* the session they left, at index 1 with one answer, and both returned
\* the result page.
C25_Witness ==
    /\ \A r \in {2, 3, 4, 5} : pending[r].pc = "done"
    /\ pending[2].handler = "exam_answer"
    /\ pending[3].handler = "exam_answer"
    /\ pending[2].form # pending[3].form
    /\ pending[2].read = pending[3].read
    /\ InProgress(pending[2].read)
    /\ pending[2].read.current_index = 0
    /\ pending[2].response = Redirect("exam_question", "")
    /\ pending[3].response = Redirect("exam_question", "")
    /\ pending[4].handler = "exam_result"
    /\ pending[5].handler = "exam_result"
    /\ pending[4].read = pending[5].read
    /\ InProgress(pending[4].read)
    /\ pending[4].read.current_index = 1
    /\ Len(pending[4].read.answers) = 1
    /\ pending[4].response.kind = "render"
    /\ pending[5].response = pending[4].response
    /\ Idle(session)
====
